---- MODULE Spec2Model ----
(***************************************************************************)
(* Model of the ServiceNow attachment downloader (the script with the      *)
(* concurrency cap, logging and progress percentage).                      *)
(*                                                                         *)
(* Strings are sequences of character codes (UTF-16 code units), so that   *)
(* the regular expressions of cleanFileName and the path functions of Node *)
(* are computed on characters.  The file system is a set of directories    *)
(* and a set of files, both holding absolute paths.                        *)
(***************************************************************************)
EXTENDS Integers, Sequences, FiniteSets, TLC

(***************************************************************************)
(* Bounds of the model.                                                    *)
(***************************************************************************)
\* longest list-query result whose records are drawn freely
MaxDetail == 2
\* longest list-query result made of one repeated record shape
MaxBulk == 6
\* failures the environment injects into one run (failed or malformed
\* responses, failing fs calls), and into one run against a long list
MaxFaults == 2
MaxBulkFaults == 1
\* upper limit of the search for a free disambiguator (the code's loop is
\* unbounded; the file system of the model holds fewer files than this)
MaxProbe == 8
\* largest total of attachments whose percentages are computed
MaxTotal == 50
\* longest name given to a direct call of cleanFileName
MaxNameLen == 2
\* direct calls of getUniquePath in one sequence
MaxCalls == 3

(***************************************************************************)
(* Character codes.                                                        *)
(***************************************************************************)
Sep == 47
Dot == 46
LBracket == 91
RBracket == 93
Digit0 == 48
LastAscii == 127

\* the characters of the class [|&;$%@"<>()+,*]
Denylist == {124, 38, 59, 36, 37, 64, 34, 60, 62, 40, 41, 43, 44, 42}

(***************************************************************************)
(* String helpers.                                                         *)
(***************************************************************************)
\* String.prototype.replace(/[...]/g, ""): drops every character of the class
RemoveChars(s, class) == SelectSeq(s, LAMBDA c : c \notin class)

\* decimal digits of a natural number, as '' + x gives them
RECURSIVE DecimalString(_)
DecimalString(x) ==
    IF x < 10 THEN <<Digit0 + x>>
    ELSE DecimalString(x \div 10) \o <<Digit0 + (x % 10)>>

\* index of the last occurrence of c in s, 0 when there is none
LastIndexOf(s, c) ==
    LET hits == {i \in 1..Len(s) : s[i] = c}
    IN  IF hits = {} THEN 0 ELSE CHOOSE i \in hits : \A j \in hits : j <= i

\* s without its trailing separators (a path of separators only keeps one)
RECURSIVE StripTrailingSeps(_)
StripTrailingSeps(s) ==
    IF Len(s) > 1 /\ s[Len(s)] = Sep
    THEN StripTrailingSeps(SubSeq(s, 1, Len(s) - 1))
    ELSE s

EndsWith(s, suffix) ==
    /\ Len(suffix) <= Len(s)
    /\ SubSeq(s, Len(s) - Len(suffix) + 1, Len(s)) = suffix

(***************************************************************************)
(* Node's path module (POSIX flavour).                                     *)
(***************************************************************************)
\* path.basename(p): the last component, trailing separators ignored
LastComponent(p) ==
    LET q == StripTrailingSeps(p)
        i == LastIndexOf(q, Sep)
    IN  IF q = <<Sep>> THEN <<>> ELSE SubSeq(q, i + 1, Len(q))

\* path.dirname(p)
PathDirname(p) ==
    LET q == StripTrailingSeps(p)
        i == LastIndexOf(q, Sep)
    IN  IF i = 0 THEN <<Dot>>
        ELSE IF i = 1 THEN <<Sep>>
        ELSE StripTrailingSeps(SubSeq(q, 1, i - 1))

\* path.extname(p): from the last dot of the last component to its end; empty
\* when there is no dot, when the only dot starts the component, or for ".."
PathExtname(p) ==
    LET b == LastComponent(p)
        i == LastIndexOf(b, Dot)
    IN  IF i <= 1 \/ b = <<Dot, Dot>> THEN <<>> ELSE SubSeq(b, i, Len(b))

\* path.basename(p, ext): the last component without the suffix ext
PathBasename(p, ext) ==
    LET b == LastComponent(p)
    IN  IF ext # <<>> /\ EndsWith(b, ext)
        THEN SubSeq(b, 1, Len(b) - Len(ext))
        ELSE b

\* path.join(a, b) for non-empty a and a component b without separators
\* that is neither "." nor "..": normalisation then only drops the
\* separator that an empty b leaves at the end
PathJoin(a, b) == IF b = <<>> THEN a ELSE a \o <<Sep>> \o b

(***************************************************************************)
(* The remote instance and the local environment.                          *)
(***************************************************************************)
\* __dirname of the script and another working directory
ScriptDir == <<Sep, 100>>
OtherDir == <<Sep, 99>>

TableName == <<116>>
\* the two owner records of the remote table: a task with a number, and a
\* record without one
OwnerIds == {<<114>>, <<115>>}
OwnerResult(id) ==
    IF id = <<114>> THEN [number |-> <<73>>, sys_id |-> id]
    ELSE [number |-> <<>>, sys_id |-> id]

\* file names of attachments: a plain one, and one that differs from it by
\* a denylisted character
FileNames == {<<97, Dot, 98>>, <<97, 40, Dot, 98>>}

AttShapes == [file_name : FileNames, table_name : {TableName}, table_sys_id : OwnerIds]
\* the i-th record of a long result: one owner, file names "b", "c", ...
BulkShape(i) == [file_name |-> <<97 + i>>, table_name |-> TableName, table_sys_id |-> <<114>>]

\* the attachment records of a list result; sys_id is the position
WithIds(shapes) ==
    [i \in 1..Len(shapes) |->
        [sys_id |-> i, file_name |-> shapes[i].file_name,
         table_name |-> shapes[i].table_name, table_sys_id |-> shapes[i].table_sys_id]]

\* body.result of the list query: short results of any records, and long
\* result of records with distinct file names
DetailResults == {WithIds(s) : s \in UNION {[1..n -> AttShapes] : n \in 0..MaxDetail}}
BulkResults == {WithIds([i \in 1..MaxBulk |-> BulkShape(i)])}

\* the results the list query can give
ListResults(table) == IF table = "short" THEN DetailResults ELSE BulkResults

ConfigFields == {"instanceName", "userName", "password", "attachmentFilter", "logfile"}

\* files left by an earlier run
EarlierFile == ScriptDir \o <<Sep>> \o TableName \o <<Sep, 73, Sep, 97, Dot, 98>>
EarlierRuns ==
    { [dirs |-> {}, files |-> {}],
      [dirs |-> {PathDirname(PathDirname(EarlierFile)), PathDirname(EarlierFile)},
       files |-> {EarlierFile}] }

VARIABLES
    config,             \* the set of configuration fields that are present
    remoteTable,        \* "short" or "long": what the filter can match
    cwd,                \* process.cwd()
    faults,             \* failures the environment may still inject
    dirs, files,        \* the file system: absolute paths
    phase,              \* position of the main waterfall
    exitCode,           \* -1 while the process runs
    listRequests,       \* list queries issued
    listOutcome,        \* how the list query ended
    attachments,        \* the array passed to the second stage
    percentTotal, percentCompleted, percentageComplete,
    running, nextElem, done,   \* state of async.eachOfLimit
    pc,                 \* position of each attachment's waterfall
    args,               \* arguments the waterfall passes to the next stage
    ownerRequests,      \* owner-resolution requests issued per attachment
    ownerResp,          \* how each owner-resolution request ended
    filename,           \* the path given to fs.createWriteStream
    stream,             \* state of the write stream
    download,           \* how each download request ended
    mkdirError,         \* the code of the error fs.mkdirSync threw, if any
    call,               \* the last direct call of a method or expression
    returned            \* the paths getUniquePath returned to direct calls

vars == <<config, remoteTable, cwd, faults, dirs, files, phase, exitCode, listRequests, listOutcome,
          attachments, percentTotal, percentCompleted, percentageComplete,
          running, nextElem, done, pc, args, ownerRequests, ownerResp,
          filename, stream, download, mkdirError, call, returned>>

mainVars == <<phase, exitCode, listRequests, listOutcome, attachments, percentTotal>>
progressVars == <<percentCompleted, percentageComplete>>
limitVars == <<running, nextElem, done>>
taskVars == <<pc, args, ownerRequests, ownerResp, filename, stream, download>>
fsVars == <<dirs, files, mkdirError>>
envVars == <<config, remoteTable, cwd, call, returned>>

\* no method has been called directly
NoCall == [fn |-> "none"]

\* the environment injects a failure, or does not
Fault == faults > 0 /\ faults' = faults - 1
NoFault == faults' = faults

\* the state of the process when the script starts
Started ==
    /\ phase = "config"
    /\ exitCode = -1
    /\ listRequests = 0
    /\ listOutcome = "none"
    /\ attachments = <<>>
    /\ percentTotal = 0
    /\ percentCompleted = 0
    /\ percentageComplete = 0
    /\ running = 0
    /\ nextElem = 1
    /\ done = FALSE
    /\ pc = <<>>
    /\ args = <<>>
    /\ ownerRequests = <<>>
    /\ ownerResp = <<>>
    /\ filename = <<>>
    /\ stream = <<>>
    /\ download = <<>>
    /\ mkdirError = "none"
    /\ call = NoCall
    /\ returned = <<>>

Init ==
    /\ config \in SUBSET ConfigFields
    /\ remoteTable = "short"
    /\ cwd \in {ScriptDir, OtherDir}
    /\ faults = MaxFaults
    /\ \E fs \in EarlierRuns :
        /\ dirs = fs.dirs \cup {ScriptDir, OtherDir}
        /\ files = fs.files
    /\ Started

\* a run with a complete configuration, started in the script's directory
\* with no earlier files, against a long list
InitBulk ==
    /\ config = ConfigFields
    /\ remoteTable = "long"
    /\ cwd = ScriptDir
    /\ faults = MaxBulkFaults
    /\ dirs = {ScriptDir, OtherDir}
    /\ files = {}
    /\ Started

(***************************************************************************)
(* Path Resolver: the methods of AttachmentHandler.                        *)
(***************************************************************************)
\* the absolute path a relative path names for the fs calls that resolve it
\* against the working directory
Resolve(base, p) == StripTrailingSeps(base \o <<Sep>> \o p)

\* fs.existsSync of an absolute path
ExistsAbs(p) == p \in dirs \/ p \in files

\* fs.existsSync(p) for a relative path
ExistsSync(p) == ExistsAbs(Resolve(cwd, p))

\* createDirectorySync(dir): the directories after the call
CreateDirectorySync(dir) ==
    LET dirName == Resolve(ScriptDir, dir)
    IN  IF ~ExistsAbs(dirName) THEN dirs \cup {dirName} ELSE dirs

\* whether createDirectorySync(dir) calls fs.mkdirSync
CallsMkdir(dir) == ~ExistsAbs(Resolve(ScriptDir, dir))

\* the code of the error fs.mkdirSync(dirName) throws: the path exists
\* already, its parent is missing, or the file system denies the creation
MkdirSyncError(dirName, denied) ==
    IF ExistsAbs(dirName) THEN "EEXIST"
    ELSE IF PathDirname(dirName) \notin dirs THEN "ENOENT"
    ELSE IF denied THEN "EACCES"
    ELSE "none"

\* createDirectorySync without the fs.existsSync test
DirectoryErrorWithoutTest(dir, denied) ==
    MkdirSyncError(Resolve(ScriptDir, dir), denied)

\* the error createDirectorySync(dir) lets through
DirectoryError(dir, denied) ==
    IF CallsMkdir(dir) THEN MkdirSyncError(Resolve(ScriptDir, dir), denied)
    ELSE "none"

\* cleanFileName without its second replace
CleanFileNameFirstReplace(name) == RemoveChars(name, Denylist)

\* cleanFileName(filename)
CleanFileName(name) ==
    LET newFn == RemoveChars(name, Denylist)
    IN  RemoveChars(newFn, (LastAscii + 1)..65535)

\* the candidate of the loop of getUniquePath for the counter x
Candidate(dirPath, x) ==
    LET ext == PathExtname(dirPath)
        dirname == PathDirname(dirPath)
        fname == PathBasename(dirPath, ext)
    IN  dirname \o <<Sep>> \o fname \o <<LBracket>> \o DecimalString(x)
            \o <<RBracket>> \o ext

\* the while loop with the counter incremented before the first probe
RECURSIVE UniqueLoopIncrementFirst(_, _)
UniqueLoopIncrementFirst(dirPath, x) ==
    IF ~ExistsSync(Candidate(dirPath, x + 1)) THEN Candidate(dirPath, x + 1)
    ELSE UniqueLoopIncrementFirst(dirPath, x + 1)

\* the while loop of getUniquePath, entered with the counter x
RECURSIVE UniqueLoop(_, _)
UniqueLoop(dirPath, x) ==
    IF ~ExistsSync(Candidate(dirPath, x)) THEN Candidate(dirPath, x)
    ELSE UniqueLoop(dirPath, x + 1)

\* getUniquePath that probes no variant: the first one is returned
GetUniquePathFirstVariant(dirPath) ==
    LET cleaned == CleanFileName(dirPath)
    IN  IF ~ExistsSync(cleaned) THEN cleaned ELSE Candidate(cleaned, 1)

\* getUniquePath(dirPath)
GetUniquePath(dirPath) ==
    LET cleaned == CleanFileName(dirPath)
    IN  IF ~ExistsSync(cleaned) THEN cleaned ELSE UniqueLoop(cleaned, 1)

(***************************************************************************)
(* Progress and the concurrency limit.                                     *)
(***************************************************************************)
\* the limit given to async.eachOfLimit
Limit == 5

\* body.result.length, stored in percentTotal
TotalOf(result) == Len(result)

(* percentCompleted / percentTotal * 100 is computed in IEEE 754 doubles: the
   quotient is rounded to 53 significant bits, and so is its product with
   100.  Numerals are sequences of bits, most significant bit first. *)
Precision == 53

\* the number of zero bits after the binary point of r / t, for 0 < r < t
RECURSIVE LeadingZeros(_, _)
LeadingZeros(r, t) == IF 2 * r >= t THEN 0 ELSE 1 + LeadingZeros(2 * r, t)

\* the next n bits of the binary expansion of r / t, for 0 <= r < t
RECURSIVE Expand(_, _, _)
Expand(r, t, n) ==
    IF n = 0 THEN <<>>
    ELSE <<(2 * r) \div t>> \o Expand((2 * r) % t, t, n - 1)

\* the remainder left after n bits of that expansion
RECURSIVE Remainder(_, _, _)
Remainder(r, t, n) == IF n = 0 THEN r ELSE Remainder((2 * r) % t, t, n - 1)

\* a binary numeral plus one
RECURSIVE Increment(_)
Increment(bits) ==
    IF bits = <<>> THEN <<1>>
    ELSE IF bits[Len(bits)] = 0 THEN SubSeq(bits, 1, Len(bits) - 1) \o <<1>>
    ELSE Increment(SubSeq(bits, 1, Len(bits) - 1)) \o <<0>>

\* the binary numeral of a natural number
RECURSIVE Binary(_)
Binary(n) == IF n = 0 THEN <<>> ELSE Binary(n \div 2) \o <<n % 2>>

\* the value of a short binary numeral
RECURSIVE Value(_)
Value(bits) ==
    IF bits = <<>> THEN 0
    ELSE 2 * Value(SubSeq(bits, 1, Len(bits) - 1)) + bits[Len(bits)]

\* a binary numeral times a small number k, plus the carry of the lower bits
RECURSIVE Times(_, _, _)
Times(bits, k, carry) ==
    IF bits = <<>> THEN Binary(carry)
    ELSE LET v == bits[Len(bits)] * k + carry
         IN  IF v % 2 = 0
             THEN Times(SubSeq(bits, 1, Len(bits) - 1), k, v \div 2) \o <<0>>
             ELSE Times(SubSeq(bits, 1, Len(bits) - 1), k, v \div 2) \o <<1>>

Zeros(n) == [i \in 1..n |-> 0]

\* round to nearest, ties to even: the numeral cut to Precision significant
\* bits at the same scale; sticky tells that bits below the numeral are set
RoundToDouble(bits, sticky) ==
    IF Len(bits) <= Precision THEN bits
    ELSE LET kept == SubSeq(bits, 1, Precision)
             rest == SubSeq(bits, Precision + 1, Len(bits))
             more == sticky \/ \E j \in 2..Len(rest) : rest[j] = 1
             up == rest[1] = 1 /\ (more \/ kept[Precision] = 1)
         IN  (IF up THEN Increment(kept) ELSE kept) \o Zeros(Len(rest))

\* parseInt(completed / total * 100) for completed >= 0 and total > 0: the
\* integer part of the rounded product of the rounded quotient.  The
\* quotient is its whole part followed by n bits after the binary point, of
\* which the first z are zero when the whole part is
PercentDouble(completed, total) ==
    IF completed % total = 0 THEN (completed \div total) * 100
    ELSE LET whole == Binary(completed \div total)
             r == completed % total
             z == IF whole = <<>> THEN LeadingZeros(r, total) ELSE 0
             r0 == Remainder(r, total, z)
             n == Precision + 1 - Len(whole)
             scale == z + n
             quotient == RoundToDouble(whole \o Expand(r0, total, n),
                                       Remainder(r0, total, n) # 0)
             product == RoundToDouble(Times(quotient, 100, 0), FALSE)
         IN  IF Len(product) <= scale THEN 0
             ELSE Value(SubSeq(product, 1, Len(product) - scale))

\* the percentages of every count of every total up to MaxTotal
PercentTable ==
    [total \in 1..MaxTotal |-> [completed \in 0..total |->
        PercentDouble(completed, total)]]

\* the percentage as the mathematical quotient, rounded down
PercentExact(completed, total) == (completed * 100) \div total

\* parseInt(percentCompleted / percentTotal * 100)
PercentOf(completed, total) ==
    IF total <= MaxTotal /\ completed <= total THEN PercentTable[total][completed]
    ELSE PercentDouble(completed, total)

\* the loop condition with an off-by-one comparison
CanStartOneMore(run) == run <= Limit

\* the loop condition of eachOfLimit's replenish, without the done flag
CanStart(run) == run < Limit

\* replenish(): the state of eachOfLimit after starting every iteratee the
\* limit allows; n is the length of the collection
RECURSIVE Replenish(_, _, _, _)
Replenish(run, nxt, dn, n) ==
    IF CanStart(run) /\ ~dn
    THEN IF nxt > n
         THEN [running |-> run, nextElem |-> nxt, done |-> TRUE]
         ELSE Replenish(run + 1, nxt + 1, dn, n)
    ELSE [running |-> run, nextElem |-> nxt, done |-> dn]

\* the callback eachOfLimit hands to the iteratee, called without an error
IterateeCallback(run, nxt, dn, n) ==
    IF dn /\ run - 1 <= 0
    THEN [running |-> run - 1, nextElem |-> nxt, done |-> TRUE]
    ELSE Replenish(run - 1, nxt, dn, n)

\* the positions after writeAttachment was called for the elements from..to-1
StartTasks(p, from, to) ==
    [i \in 1..Len(p) |-> IF i >= from /\ i < to THEN "started" ELSE p[i]]

(***************************************************************************)
(* The script body and the main waterfall.                                 *)
(***************************************************************************)
\* the configuration check without the test of logfile
BadConfigurationWithoutLogfile(c) ==
    \/ "instanceName" \notin c
    \/ "userName" \notin c
    \/ "password" \notin c
    \/ "attachmentFilter" \notin c

\* the condition of the configuration check
BadConfiguration(c) ==
    \/ "instanceName" \notin c
    \/ "userName" \notin c
    \/ "password" \notin c
    \/ "attachmentFilter" \notin c
    \/ "logfile" \notin c

\* process.exit(code), and the end of the process by an uncaught exception
\* or an unhandled 'error' event, which Node ends with code 1
Exit(code) ==
    /\ phase' = "exited"
    /\ exitCode' = code

\* the script body up to the call of waterfall
ConfigCheck ==
    /\ phase = "config"
    /\ IF BadConfiguration(config)
       THEN Exit(1)
       ELSE phase' = "start" /\ exitCode' = exitCode
    /\ UNCHANGED <<listRequests, listOutcome, attachments, percentTotal>>
    /\ UNCHANGED <<envVars, fsVars, progressVars, limitVars, taskVars>>
    /\ NoFault

\* first stage of the main waterfall: the list query is issued
ListStage ==
    /\ phase = "start"
    /\ phase' = "listing"
    /\ listRequests' = listRequests + 1
    /\ UNCHANGED <<exitCode, listOutcome, attachments, percentTotal>>
    /\ UNCHANGED <<envVars, fsVars, progressVars, limitVars, taskVars>>
    /\ NoFault

\* the failure handler that passes the error to the waterfall and does not
\* call process.exit
ListQueryFailedWithoutExit ==
    /\ phase = "listing"
    /\ \E outcome \in {"error", "non200"} : listOutcome' = outcome
    /\ phase' = "running"
    /\ UNCHANGED <<exitCode, listRequests, attachments, percentTotal>>
    /\ UNCHANGED <<envVars, fsVars, progressVars, limitVars, taskVars>>
    /\ Fault

\* the list query ends with a transport error or a status other than 200
ListQueryFailed ==
    /\ phase = "listing"
    /\ \E outcome \in {"error", "non200"} : listOutcome' = outcome
    /\ Exit(1)
    /\ UNCHANGED <<listRequests, attachments, percentTotal>>
    /\ UNCHANGED <<envVars, fsVars, progressVars, limitVars, taskVars>>
    /\ Fault

\* status 200 with a body JSON.parse rejects, or without a result array:
\* the handler throws
ListQueryMalformed ==
    /\ phase = "listing"
    /\ listOutcome' = "malformed"
    /\ Exit(1)
    /\ UNCHANGED <<listRequests, attachments, percentTotal>>
    /\ UNCHANGED <<envVars, fsVars, progressVars, limitVars, taskVars>>
    /\ Fault

\* status 200 with a result array: the callback of the stage is called from
\* the forEach on the last record, so not at all for an empty result
ListQueryOk ==
    /\ phase = "listing"
    /\ \E result \in ListResults(remoteTable) :
        /\ listOutcome' = "ok"
        /\ percentTotal' = TotalOf(result)
        /\ attachments' = result
        /\ phase' = IF Len(result) > 0 THEN "dispatch" ELSE "running"
        /\ pc' = [i \in 1..Len(result) |-> "listed"]
        /\ args' = [i \in 1..Len(result) |-> <<>>]
        /\ ownerRequests' = [i \in 1..Len(result) |-> 0]
        /\ ownerResp' = [i \in 1..Len(result) |-> "none"]
        /\ filename' = [i \in 1..Len(result) |-> <<>>]
        /\ stream' = [i \in 1..Len(result) |-> "none"]
        /\ download' = [i \in 1..Len(result) |-> "none"]
    /\ UNCHANGED <<exitCode, listRequests>>
    /\ UNCHANGED <<envVars, fsVars, progressVars, limitVars>>
    /\ NoFault

\* second stage of the main waterfall: async.eachOfLimit starts the first
\* iteratees
EachOfLimitStage ==
    /\ phase = "dispatch"
    /\ LET r == Replenish(0, 1, FALSE, Len(attachments))
       IN  /\ running' = r.running
           /\ nextElem' = r.nextElem
           /\ done' = r.done
           /\ pc' = StartTasks(pc, 1, r.nextElem)
    /\ phase' = "running"
    /\ UNCHANGED <<exitCode, listRequests, listOutcome, attachments, percentTotal>>
    /\ UNCHANGED <<envVars, fsVars, progressVars>>
    /\ UNCHANGED <<args, ownerRequests, ownerResp, filename, stream, download>>
    /\ NoFault

\* the final callback of writeAttachment's waterfall: cb(), which is
\* eachOfLimit's callback of the iteratee
Finish(i, position) ==
    LET r == IterateeCallback(running, nextElem, done, Len(attachments))
    IN  /\ running' = r.running
        /\ nextElem' = r.nextElem
        /\ done' = r.done
        /\ pc' = StartTasks([pc EXCEPT ![i] = position], nextElem, r.nextElem)

Tasks == 1..Len(pc)

(***************************************************************************)
(* writeAttachment: the waterfall of one attachment.                       *)
(***************************************************************************)
\* the first stage with the owner record shared: no request is issued when
\* another attachment of the same owner has issued one
TableDirStageCached(i) ==
    /\ phase = "running"
    /\ pc[i] = "started"
    /\ \E mkdirOk \in BOOLEAN :
        LET thrown == DirectoryError(attachments[i].table_name, ~mkdirOk)
        IN  IF thrown # "none"
            THEN /\ IF thrown = "EACCES" THEN Fault ELSE NoFault
                 /\ mkdirError' = thrown
                 /\ Exit(1)
                 /\ UNCHANGED <<dirs, pc, ownerRequests>>
            ELSE /\ dirs' = CreateDirectorySync(attachments[i].table_name)
                 /\ ownerRequests' = [ownerRequests EXCEPT ![i] =
                        IF \E j \in Tasks :
                            /\ j # i
                            /\ ownerRequests[j] > 0
                            /\ attachments[j].table_sys_id
                                    = attachments[i].table_sys_id
                        THEN @ ELSE @ + 1]
                 /\ pc' = [pc EXCEPT ![i] = "resolving"]
                 /\ NoFault
                 /\ UNCHANGED <<phase, exitCode, mkdirError>>
    /\ UNCHANGED <<listRequests, listOutcome, attachments, percentTotal>>
    /\ UNCHANGED <<envVars, files, progressVars, limitVars>>
    /\ UNCHANGED <<args, ownerResp, filename, stream, download>>

\* first stage: the table directory is ensured and the owner-resolution
\* request is issued; a throwing fs.mkdirSync is an uncaught exception
TableDirStage(i) ==
    /\ phase = "running"
    /\ pc[i] = "started"
    /\ \E mkdirOk \in BOOLEAN :
        LET thrown == DirectoryError(attachments[i].table_name, ~mkdirOk)
        IN  IF thrown # "none"
            THEN /\ IF thrown = "EACCES" THEN Fault ELSE NoFault
                 /\ mkdirError' = thrown
                 /\ Exit(1)
                 /\ UNCHANGED <<dirs, pc, ownerRequests>>
            ELSE /\ dirs' = CreateDirectorySync(attachments[i].table_name)
                 /\ ownerRequests' = [ownerRequests EXCEPT ![i] = @ + 1]
                 /\ pc' = [pc EXCEPT ![i] = "resolving"]
                 /\ NoFault
                 /\ UNCHANGED <<phase, exitCode, mkdirError>>
    /\ UNCHANGED <<listRequests, listOutcome, attachments, percentTotal>>
    /\ UNCHANGED <<envVars, files, progressVars, limitVars>>
    /\ UNCHANGED <<args, ownerResp, filename, stream, download>>

\* the owner-resolution request ends with a transport error: callback(error)
\* ends the waterfall, whose final callback calls cb()
OwnerTransportError(i) ==
    /\ phase = "running"
    /\ pc[i] = "resolving"
    /\ ownerResp' = [ownerResp EXCEPT ![i] = "error"]
    /\ Finish(i, "failed")
    /\ UNCHANGED <<mainVars, envVars, fsVars, progressVars>>
    /\ UNCHANGED <<args, ownerRequests, filename, stream, download>>
    /\ Fault

\* a status other than 200 handled by falling back to the identifier
OwnerNon200UsesIdentifier(i) ==
    /\ phase = "running"
    /\ pc[i] = "resolving"
    /\ ownerResp' = [ownerResp EXCEPT ![i] = "non200"]
    /\ args' = [args EXCEPT ![i] = <<attachments[i].table_sys_id>>]
    /\ pc' = [pc EXCEPT ![i] = "labelDir"]
    /\ UNCHANGED <<mainVars, envVars, fsVars, progressVars, limitVars>>
    /\ UNCHANGED <<ownerRequests, filename, stream, download>>
    /\ Fault

\* the owner-resolution request ends with a status other than 200: error is
\* null, so callback(error) passes on to the next stage without a taskNumber
OwnerNon200(i) ==
    /\ phase = "running"
    /\ pc[i] = "resolving"
    /\ ownerResp' = [ownerResp EXCEPT ![i] = "non200"]
    /\ args' = [args EXCEPT ![i] = <<>>]
    /\ pc' = [pc EXCEPT ![i] = "labelDir"]
    /\ UNCHANGED <<mainVars, envVars, fsVars, progressVars, limitVars>>
    /\ UNCHANGED <<ownerRequests, filename, stream, download>>
    /\ Fault

\* status 200 with a body JSON.parse rejects or without a result: the handler
\* throws
OwnerMalformed(i) ==
    /\ phase = "running"
    /\ pc[i] = "resolving"
    /\ Exit(1)
    /\ UNCHANGED <<listRequests, listOutcome, attachments, percentTotal>>
    /\ UNCHANGED <<envVars, fsVars, progressVars, limitVars, taskVars>>
    /\ Fault

\* the conditional with its branches exchanged
TaskNumberOfExchanged(result) ==
    IF result.number # <<>> THEN result.sys_id ELSE result.number

\* body.result.number ? body.result.number : body.result.sys_id
TaskNumberOf(result) ==
    IF result.number # <<>> THEN result.number ELSE result.sys_id

\* status 200 with the owner record
OwnerOk(i) ==
    /\ phase = "running"
    /\ pc[i] = "resolving"
    /\ ownerResp' = [ownerResp EXCEPT ![i] = "ok"]
    /\ args' = [args EXCEPT ![i] =
                    <<TaskNumberOf(OwnerResult(attachments[i].table_sys_id))>>]
    /\ pc' = [pc EXCEPT ![i] = "labelDir"]
    /\ UNCHANGED <<mainVars, envVars, fsVars, progressVars, limitVars>>
    /\ UNCHANGED <<ownerRequests, filename, stream, download>>
    /\ NoFault

\* second stage: the directory of the task number is ensured.  Called with no
\* value from the first stage, taskNumber is the stage's callback and
\* path.join throws a TypeError
LabelDirStage(i) ==
    /\ phase = "running"
    /\ pc[i] = "labelDir"
    /\ \E mkdirOk \in BOOLEAN :
        IF args[i] = <<>>
        THEN /\ NoFault
             /\ Exit(1)
             /\ UNCHANGED <<dirs, pc, args, mkdirError>>
        ELSE LET dirPath == PathJoin(attachments[i].table_name, args[i][1])
                 thrown == DirectoryError(dirPath, ~mkdirOk)
             IN  IF thrown # "none"
                 THEN /\ IF thrown = "EACCES" THEN Fault ELSE NoFault
                      /\ mkdirError' = thrown
                      /\ Exit(1)
                      /\ UNCHANGED <<dirs, pc, args>>
                 ELSE /\ dirs' = CreateDirectorySync(dirPath)
                      /\ args' = [args EXCEPT ![i] = <<dirPath>>]
                      /\ pc' = [pc EXCEPT ![i] = "download"]
                      /\ NoFault
                      /\ UNCHANGED <<phase, exitCode, mkdirError>>
    /\ UNCHANGED <<listRequests, listOutcome, attachments, percentTotal>>
    /\ UNCHANGED <<envVars, files, progressVars, limitVars>>
    /\ UNCHANGED <<ownerRequests, ownerResp, filename, stream, download>>

\* third stage: the unique path is computed, the write stream is created
\* (fs opens the file later) and the download request is issued
DownloadStage(i) ==
    /\ phase = "running"
    /\ pc[i] = "download"
    /\ filename' = [filename EXCEPT ![i] =
                        GetUniquePath(PathJoin(args[i][1], attachments[i].file_name))]
    /\ stream' = [stream EXCEPT ![i] = "opening"]
    /\ pc' = [pc EXCEPT ![i] = "downloading"]
    /\ UNCHANGED <<mainVars, envVars, fsVars, progressVars, limitVars>>
    /\ UNCHANGED <<args, ownerRequests, ownerResp, download>>
    /\ NoFault

\* fs ends the open of a write stream: the file is created (or truncated)
\* when its directory exists; otherwise, or when the open fails for another
\* reason, the stream emits 'error', which nothing handles
FileOpen(i) ==
    /\ phase = "running"
    /\ stream[i] = "opening"
    /\ \E openOk \in BOOLEAN :
        LET target == Resolve(cwd, filename[i])
        IN  IF openOk /\ PathDirname(target) \in dirs /\ target \notin dirs
            THEN /\ NoFault
                 /\ files' = files \cup {target}
                 /\ stream' = [stream EXCEPT ![i] = "open"]
                 /\ UNCHANGED <<phase, exitCode>>
            ELSE /\ IF openOk THEN NoFault ELSE Fault
                 /\ Exit(1)
                 /\ UNCHANGED <<files, stream>>
    /\ UNCHANGED <<listRequests, listOutcome, attachments, percentTotal>>
    /\ UNCHANGED <<envVars, dirs, mkdirError, progressVars, limitVars>>
    /\ UNCHANGED <<pc, args, ownerRequests, ownerResp, filename, download>>

\* a 'complete' handler that counts the download twice
DownloadCompleteCountedTwice(i) ==
    /\ phase = "running"
    /\ pc[i] = "downloading"
    /\ \E status \in {"ok", "non200"} :
        /\ download' = [download EXCEPT ![i] = status]
        /\ IF status = "ok" THEN NoFault ELSE Fault
    /\ percentCompleted' = percentCompleted + 2
    /\ percentageComplete' = PercentOf(percentCompleted + 2, percentTotal)
    /\ Finish(i, "done")
    /\ UNCHANGED <<mainVars, envVars, fsVars>>
    /\ UNCHANGED <<args, ownerRequests, ownerResp, filename, stream>>

\* the 'complete' handler of the download request, for a response of any
\* status; callback(null) is the final callback of the waterfall
DownloadComplete(i) ==
    /\ phase = "running"
    /\ pc[i] = "downloading"
    /\ \E status \in {"ok", "non200"} :
        /\ download' = [download EXCEPT ![i] = status]
        /\ IF status = "ok" THEN NoFault ELSE Fault
    /\ percentCompleted' = percentCompleted + 1
    /\ percentageComplete' = PercentOf(percentCompleted + 1, percentTotal)
    /\ Finish(i, "done")
    /\ UNCHANGED <<mainVars, envVars, fsVars>>
    /\ UNCHANGED <<args, ownerRequests, ownerResp, filename, stream>>

\* the download request ends with a transport error: the request emits
\* 'error', which has no handler but the one pipe installs, and that one
\* rethrows
DownloadTransportError(i) ==
    /\ phase = "running"
    /\ pc[i] = "downloading"
    /\ Exit(1)
    /\ UNCHANGED <<listRequests, listOutcome, attachments, percentTotal>>
    /\ UNCHANGED <<envVars, fsVars, progressVars, limitVars, taskVars>>
    /\ Fault

\* nothing is pending any more: the event loop is empty and Node exits
Idle ==
    /\ \A i \in Tasks : pc[i] \in {"done", "failed"} /\ stream[i] # "opening"

EventLoopEmpty ==
    /\ phase = "running"
    /\ Idle
    /\ Exit(0)
    /\ UNCHANGED <<listRequests, listOutcome, attachments, percentTotal>>
    /\ UNCHANGED <<envVars, fsVars, progressVars, limitVars, taskVars>>
    /\ NoFault

Next ==
    \/ ConfigCheck
    \/ ListStage
    \/ ListQueryFailed
    \/ ListQueryMalformed
    \/ ListQueryOk
    \/ EachOfLimitStage
    \/ \E i \in Tasks : TableDirStage(i)
    \/ \E i \in Tasks : OwnerTransportError(i)
    \/ \E i \in Tasks : OwnerNon200(i)
    \/ \E i \in Tasks : OwnerMalformed(i)
    \/ \E i \in Tasks : OwnerOk(i)
    \/ \E i \in Tasks : LabelDirStage(i)
    \/ \E i \in Tasks : DownloadStage(i)
    \/ \E i \in Tasks : FileOpen(i)
    \/ \E i \in Tasks : DownloadComplete(i)
    \/ \E i \in Tasks : DownloadTransportError(i)
    \/ EventLoopEmpty

Spec == Init /\ [][Next]_vars

SpecBulk == InitBulk /\ [][Next]_vars

\* the event loop runs a pending callback as long as there is one, and every
\* request that was issued ends
SpecFair == Init /\ [][Next]_vars /\ WF_vars(Next)

(***************************************************************************)
(* Direct calls: the methods of an AttachmentHandler, and the statement    *)
(* that computes the percentage, applied to inputs drawn from bounded sets.*)
(***************************************************************************)
\* the strings of at most n characters of an alphabet
Strings(alphabet, n) == UNION {[1..k -> alphabet] : k \in 0..n}

\* names given to cleanFileName: every character of the class, the ends of
\* the ASCII range and of the code units, and longer mixes of a few
CleanInputs ==
    Strings(Denylist \cup {97, LastAscii, LastAscii + 1, 233, 65535}, MaxNameLen)
        \cup Strings({97, 40, 233}, MaxNameLen + 1)

\* paths given to getUniquePath: a name, a name that cleans to it, and a
\* name that is the first variant of it
UniqueInputs ==
    {PathJoin(PathJoin(TableName, <<73>>), name) :
        name \in {<<97, Dot, 98>>, <<97, 40, Dot, 98>>,
                  <<97, LBracket, Digit0 + 1, RBracket, Dot, 98>>}}

\* the label directory exists, with any of the files of the inputs
InitMethods ==
    /\ config = ConfigFields
    /\ remoteTable = "short"
    /\ cwd = ScriptDir
    /\ faults = 0
    /\ dirs = {ScriptDir, OtherDir, Resolve(ScriptDir, TableName),
               Resolve(ScriptDir, PathJoin(TableName, <<73>>))}
    /\ files \in SUBSET {Resolve(ScriptDir, p) : p \in UniqueInputs}
    /\ Started

methodVars == <<config, remoteTable, cwd, faults, dirs, mkdirError, mainVars,
                progressVars, limitVars, taskVars>>

\* cleanFileName(name)
CallCleanFileName ==
    /\ call = NoCall
    /\ \E name \in CleanInputs :
        call' = [fn |-> "cleanFileName", arg |-> name, out |-> CleanFileName(name)]
    /\ UNCHANGED <<methodVars, files, returned>>

\* getUniquePath(p)
CallGetUniquePath ==
    /\ Len(returned) < MaxCalls
    /\ \E p \in UniqueInputs :
        /\ call' = [fn |-> "getUniquePath", arg |-> p, out |-> GetUniquePath(p)]
        /\ returned' = Append(returned, call')
    /\ UNCHANGED <<methodVars, files>>

\* the caller creates the file at the path the last call returned
WriteReturned ==
    /\ call.fn = "getUniquePath"
    /\ PathDirname(Resolve(cwd, call.out)) \in dirs
    /\ files' = files \cup {Resolve(cwd, call.out)}
    /\ UNCHANGED <<methodVars, call, returned>>

\* the statements of the 'complete' handler, for counters of any run
CallPercent ==
    /\ call = NoCall
    /\ \E total \in 1..MaxTotal : \E completed \in 0..(total - 1) :
        call' = [fn |-> "percent", arg |-> <<completed + 1, total>>,
                 out |-> PercentOf(completed + 1, total)]
    /\ UNCHANGED <<methodVars, files, returned>>

NextClean == CallCleanFileName
NextUnique == CallGetUniquePath \/ WriteReturned
NextPercent == CallPercent

SpecClean == InitMethods /\ [][NextClean]_vars
SpecUnique == InitMethods /\ [][NextUnique]_vars
SpecPercent == InitMethods /\ [][NextPercent]_vars

(***************************************************************************)
(* Properties.                                                             *)
(***************************************************************************)
Terminal == {"done", "failed"}
InPipeline == {"started", "resolving", "labelDir", "download", "downloading"}
Failed == {i \in Tasks : pc[i] = "failed"}
Exited == phase = "exited"

\* C1: two downloads never get the same destination path: no path is handed
\* to fs.createWriteStream by two attachments of a run.
C1_NoSharedDestination ==
    \A i, j \in Tasks :
        (i # j /\ stream[i] # "none" /\ stream[j] # "none")
            => filename[i] # filename[j]

\* C2: a failure in one attachment's pipeline is confined to it and never
\* aborts the batch: when a run whose list query succeeded has ended, every
\* attachment is Done or Failed.
C2_FailureConfined ==
    (Exited /\ listOutcome = "ok") => \A i \in Tasks : pc[i] \in Terminal

\* C3: when the only failure of a run (started in the script's directory) is
\* a non-200 owner-resolution response, the run ends with exit code 0, that
\* attachment is Failed without a label directory or download, and all other
\* attachments are Done.
C3_Non200IsRecorded ==
    (/\ Exited
     /\ cwd = ScriptDir
     /\ faults = MaxFaults - 1
     /\ \E i \in Tasks : ownerResp[i] = "non200")
    => /\ exitCode = 0
       /\ \A i \in Tasks :
            IF ownerResp[i] = "non200"
            THEN pc[i] = "failed" /\ stream[i] = "none"
            ELSE pc[i] = "done"

\* C4: at most Limit attachments are in their pipeline (started and neither
\* Done nor Failed) in every reachable state.
C4_ConcurrencyBound ==
    Cardinality({i \in Tasks : pc[i] \in InPipeline}) <= Limit

\* C4 witness: an attachment that waited behind the limit was started when
\* another one ended, and the limit is reached again.
C4_Witness ==
    /\ Cardinality({i \in Tasks : pc[i] \in InPipeline}) = Limit
    /\ \E i \in Tasks : pc[i] \in Terminal
    /\ \E i \in Tasks : i > Limit /\ pc[i] \in InPipeline

\* C5: for a list result of M records, when the run has ended, M pipelines
\* were started, each with one owner-resolution request, and
\* completed + failed = M.
C5_AllAttempted ==
    (Exited /\ listOutcome = "ok") =>
        /\ \A i \in Tasks : pc[i] # "listed" /\ ownerRequests[i] = 1
        /\ percentCompleted + Cardinality(Failed) = Len(attachments)

\* C6: after a failed list query (transport error or status other than 200)
\* the process has ended with code 1 and no pipeline exists: no attachment
\* was dispatched, no owner request, directory or download.
C6_ListFailureAborts ==
    listOutcome \in {"error", "non200"} =>
        /\ Exited
        /\ exitCode = 1
        /\ attachments = <<>>
        /\ Tasks = {}
        /\ running = 0
        /\ percentCompleted = 0

\* C6 witness: the list query has ended with a status other than 200.
C6_Witness ==
    /\ listOutcome = "non200"
    /\ exitCode = 1
    /\ listRequests = 1

\* C7: with a complete configuration and a successful list query the process
\* ends with code 0; code 1 only for a bad configuration or a failed list
\* query.
C7_ExitCode ==
    Exited =>
        (exitCode = 1 <=>
            (config # ConfigFields \/ listOutcome \in {"error", "non200", "malformed"}))

\* the run ended with a non-zero code before any network request
ExitedBeforeNetwork ==
    /\ Exited
    /\ exitCode = 1
    /\ listRequests = 0
    /\ Tasks = {}

\* C8 as stated: the run ends non-zero before any network request exactly
\* when instanceName, userName, password or attachmentFilter is absent; a
\* missing log destination alone does not stop it.
C8_RequiredFieldsOriginal ==
    phase # "config" =>
        (ExitedBeforeNetwork <=>
            {"instanceName", "userName", "password", "attachmentFilter"} \ config # {})

\* C8 amended: the run ends non-zero before any network request exactly when
\* one of instanceName, userName, password, attachmentFilter, logfile is
\* absent.
C8_RequiredFields ==
    phase # "config" => (ExitedBeforeNetwork <=> config # ConfigFields)

\* C8 witness: the run was stopped because only logfile is missing.
C8_Witness ==
    /\ ExitedBeforeNetwork
    /\ config = ConfigFields \ {"logfile"}

\* C9: completed <= total in every state, and total does not change once
\* the list query has returned.
C9_Progress ==
    /\ [](percentCompleted <= percentTotal)
    /\ [][listOutcome # "none" => percentTotal' = percentTotal]_vars

\* C9 witness: every attachment of a list of two or more is completed.
C9_Witness ==
    /\ percentTotal >= 2
    /\ percentCompleted = percentTotal

\* name[k].ext: the disambiguator k placed before the extension of p
Variant(p, k) ==
    LET ext == PathExtname(p)
    IN  SubSeq(p, 1, Len(p) - Len(ext)) \o <<LBracket>> \o DecimalString(k)
            \o <<RBracket>> \o ext

\* r is what uniquify owes for the candidate p in the current file system
Uniquified(p, r) ==
    /\ ~ExistsSync(r)
    /\ IF ~ExistsSync(p) THEN r = p
       ELSE \E k \in 1..MaxProbe :
                /\ r = Variant(p, k)
                /\ \A j \in 1..(k - 1) : ExistsSync(Variant(p, j))

\* the path the download stage of attachment i hands to getUniquePath
Requested(i) == PathJoin(args[i][1], attachments[i].file_name)

\* C10 as stated: getUniquePath returns the path it is given when no file
\* exists there, and otherwise the first free name[k].ext of that path.
C10_UniquifyOriginal ==
    [][\A i \in Tasks :
        (pc[i] = "download" /\ pc'[i] = "downloading")
            => Uniquified(Requested(i), filename'[i])]_vars

\* C10 amended: getUniquePath returns the sanitized path (cleanFileName of
\* the path it is given) when nothing exists there, and otherwise the first
\* free name[k].ext, k >= 1, of the sanitized path; nothing exists at the
\* returned path when it returns.
C10_Uniquify ==
    [][\A i \in Tasks :
        (pc[i] = "download" /\ pc'[i] = "downloading")
            => Uniquified(CleanFileName(Requested(i)), filename'[i])]_vars

\* C10 witness: a download was given the second disambiguated name of a
\* requested path that held a denylisted character.
C10_Witness ==
    \E i \in Tasks :
        /\ stream[i] # "none"
        /\ Requested(i) # CleanFileName(Requested(i))
        /\ filename[i] = Variant(CleanFileName(Requested(i)), 2)

\* the earlier direct calls of getUniquePath for the path p
EarlierCalls(p) == {k \in 1..Len(returned) : returned[k].arg = p}

\* C11: in a sequence of direct calls of getUniquePath for one path, a call
\* made when the file of every path returned before exists returns a path
\* different from all of them
C11_FreshPath ==
    [][\A p \in UniqueInputs :
        (/\ Len(returned') = Len(returned) + 1
         /\ call'.arg = p
         /\ \A k \in EarlierCalls(p) : Resolve(cwd, returned[k].out) \in files)
        => \A k \in EarlierCalls(p) : returned[k].out # call'.out]_vars

\* three calls for one path, each made after the file of the one before
\* was created, returned three paths
C11_Witness ==
    /\ Len(returned) >= 3
    /\ returned[1].arg = returned[2].arg /\ returned[2].arg = returned[3].arg
    /\ Resolve(cwd, returned[1].out) \in files
    /\ Resolve(cwd, returned[2].out) \in files
    /\ Cardinality({returned[k].out : k \in 1..3}) = 3

\* the directory the pipeline ensured for attachment i, once its second
\* stage has run
EnsuredDir(i) == Resolve(ScriptDir, args[i][1])

\* C12: the path given to the write stream of an attachment lies directly in
\* the table/label directory the pipeline ensured for it, and that directory
\* exists
C12_DestinationInEnsuredDir ==
    \A i \in Tasks :
        stream[i] # "none" =>
            /\ PathDirname(Resolve(cwd, filename[i])) = EnsuredDir(i)
            /\ EnsuredDir(i) \in dirs

\* the characters | & ; $ % @ " < > ( ) + , * the file-name cleaning is to
\* remove
UnsafeChars == {124, 38, 59, 36, 37, 64, 34, 60, 62, 40, 41, 43, 44, 42}

\* the positions of a name whose character is to be kept
KeptPositions(name) ==
    {i \in 1..Len(name) : name[i] \notin UnsafeChars /\ name[i] <= 127}

\* C13: cleanFileName returns the characters of its argument that are
\* neither in the denylist nor outside ASCII, all of them, once each and in
\* their order; and the call changes no file, directory or counter
C13_Sanitize ==
    /\ [](call.fn = "cleanFileName" =>
            LET kept == KeptPositions(call.arg)
            IN  /\ Len(call.out) = Cardinality(kept)
                /\ \A i \in kept :
                    call.out[Cardinality({j \in kept : j <= i})] = call.arg[i])
    /\ [][call'.fn = "cleanFileName" => UNCHANGED <<methodVars, files>>]_vars

\* a name with a character of the denylist, a character outside ASCII and a
\* character that stays was cleaned
C13_Witness ==
    /\ call.fn = "cleanFileName"
    /\ \E i, j \in 1..Len(call.arg) :
        call.arg[i] \in UnsafeChars /\ call.arg[j] > 127
    /\ call.out # <<>>

\* the owner record of attachment i has a number
HasNumber(i) == OwnerResult(attachments[i].table_sys_id).number # <<>>

\* the label the owner record of attachment i is to give
ExpectedLabel(i) ==
    IF HasNumber(i) THEN OwnerResult(attachments[i].table_sys_id).number
    ELSE attachments[i].table_sys_id

\* C14: after a 200 response the value handed to the second stage is the
\* number of the owner record when it has one, else its identifier; and the
\* directory that stage ensures is table/label with exactly that value
C14_OwnerLabel ==
    \A i \in Tasks :
        /\ (pc[i] = "labelDir" /\ ownerResp[i] = "ok")
                => args[i] = <<ExpectedLabel(i)>>
        /\ pc[i] \in {"download", "downloading", "done"}
                => /\ args[i] = <<attachments[i].table_name \o <<Sep>>
                                    \o ExpectedLabel(i)>>
                   /\ Resolve(ScriptDir, args[i][1]) \in dirs

\* the label directories of an owner with a number and of one without
\* have both been ensured
C14_Witness ==
    \E i, j \in Tasks :
        /\ HasNumber(i) /\ ~HasNumber(j)
        /\ pc[i] \in {"download", "downloading", "done"}
        /\ pc[j] \in {"download", "downloading", "done"}

\* the step is a call of createDirectorySync for directory d that returned:
\* d exists afterwards, and when it existed before nothing changed
Ensured(d) ==
    /\ d \in dirs'
    /\ d \in dirs => dirs' = dirs /\ files' = files

\* C15: whatever the interleaving of the attachments' stages, fs.mkdirSync
\* never fails because the directory exists already; the table directory
\* exists after every first stage and the label directory after every second
\* stage; and a call for a directory that exists changes nothing
C15_EnsureDirectory ==
    /\ [](mkdirError # "EEXIST")
    /\ [][\A i \in Tasks :
            /\ (pc[i] = "started" /\ pc'[i] = "resolving")
                    => Ensured(Resolve(ScriptDir, attachments[i].table_name))
            /\ (pc[i] = "labelDir" /\ pc'[i] = "download")
                    => Ensured(Resolve(ScriptDir,
                            PathJoin(attachments[i].table_name, args[i][1])))]_vars

\* two attachments of one owner are past the stage that ensures their
\* common label directory
C15_Witness ==
    \E i, j \in Tasks :
        /\ i # j
        /\ pc[i] \in {"download", "downloading", "done"}
        /\ pc[j] \in {"download", "downloading", "done"}
        /\ args[i] = args[j]

\* the state of the per-attachment state machine a position belongs to: the
\* directory is ready once the second stage has ensured the label directory
StateOf(position) ==
    CASE position = "listed" -> "Listed"
      [] position \in {"started", "resolving", "labelDir"} -> "OwnerResolving"
      [] position = "download" -> "DirectoryReady"
      [] position = "downloading" -> "Downloading"
      [] position = "done" -> "Done"
      [] position = "failed" -> "Failed"

\* the moves of the state machine
Moves ==
    {<<"Listed", "OwnerResolving">>, <<"OwnerResolving", "DirectoryReady">>,
     <<"DirectoryReady", "Downloading">>, <<"Downloading", "Done">>}
        \cup {<<from, "Failed">> :
                from \in {"OwnerResolving", "DirectoryReady", "Downloading"}}

\* C16: every attachment changes state only along Listed, OwnerResolving,
\* DirectoryReady, Downloading, then Done, or from a started state to Failed;
\* Done and Failed are never left; and the download request of an attachment
\* has been issued only if its owner request ended with status 200 and a
\* body, and its table and table/label directories exist
C16_StateMachine ==
    /\ [](\A i \in Tasks :
            stream[i] # "none" =>
                /\ ownerResp[i] = "ok"
                /\ StateOf(pc[i]) \in {"Downloading", "Done"}
                /\ Resolve(ScriptDir, attachments[i].table_name) \in dirs
                /\ Resolve(ScriptDir, PathJoin(attachments[i].table_name,
                                               ExpectedLabel(i))) \in dirs)
    /\ [][\A i \in Tasks :
            \/ StateOf(pc'[i]) = StateOf(pc[i])
            \/ <<StateOf(pc[i]), StateOf(pc'[i])>> \in Moves]_vars

\* one attachment went through all states to Done while another failed at
\* its owner request
C16_Witness ==
    \E i, j \in Tasks :
        /\ pc[i] = "done" /\ stream[i] # "none"
        /\ pc[j] = "failed"

\* the attachments whose pipeline succeeded up to a download that ended
\* with status 200
Succeeded == {i \in Tasks : pc[i] = "done" /\ download[i] = "ok"}

\* C17: the completed count is the number of attachments whose owner was
\* resolved, whose directory was ensured and whose download succeeded
C17_CompletedCountsSuccesses == percentCompleted = Cardinality(Succeeded)

\* C18: once the list query has returned its records, every one of them,
\* those waiting behind the limit included, eventually is Done or Failed
C18_EverySettles ==
    (listOutcome = "ok") ~> (\A i \in Tasks : pc[i] \in Terminal)

\* C19: a run issues the list request once (and not at all when it ends at
\* the configuration check); every attachment whose first stage has run and
\* returned has issued one owner-resolution request of its own, also when
\* another attachment has the same owner, and no attachment issues any other
C19_Requests ==
    /\ listRequests = (IF phase \in {"config", "start"}
                          \/ (Exited /\ listOutcome = "none" /\ BadConfiguration(config))
                       THEN 0 ELSE 1)
    /\ \A i \in Tasks :
        ownerRequests[i] = (IF pc[i] \in {"listed", "started"} THEN 0 ELSE 1)

\* two attachments of one owner have each issued an owner-resolution request
C19_Witness ==
    /\ listRequests = 1
    /\ \E i, j \in Tasks :
        /\ i # j
        /\ attachments[i].table_sys_id = attachments[j].table_sys_id
        /\ ownerRequests[i] = 1 /\ ownerRequests[j] = 1

\* C20: the percentage computed after an increment is the quotient
\* completed * 100 / total rounded down, lies in 0..100, and is 100 exactly
\* when completed equals total
C20_Percentage ==
    call.fn = "percent" =>
        LET completed == call.arg[1]
            total == call.arg[2]
        IN  /\ call.out = PercentExact(completed, total)
            /\ call.out \in 0..100
            /\ call.out = 100 <=> completed = total
====
